---- MODULE Spec2Model ----
(***************************************************************************)
(* podcast-archiver (src/src/main.rs): the bounded-concurrency download    *)
(* orchestrator, its download tasks, and the filename helpers.             *)
(*                                                                         *)
(* Strings are sequences of one-character strings.  Option<T> values are   *)
(* sequences of length at most one: <<>> is None and <<x>> is Some(x).     *)
(***************************************************************************)
EXTENDS Naturals, Sequences, FiniteSets, TLC

VARIABLES
    args,                 \* Args: [count, threads, metadata]
    phase,                \* where main() is
    exit_code,            \* <<>> while running, <<0>> / <<1>> once main returned
    fatal,                \* the step whose error main returned with `?`, or "none"
    channel,              \* channel.items() once the feed is parsed
    max_episodes,         \* main's max_episodes
    index,                \* number of feed items the scheduling loop has visited
    downloaded_episodes,  \* main's downloaded_episodes
    downloads,            \* the futures pushed to FuturesUnordered, in push order
    notices,              \* item indices logged as "No enclosure found"
    permits,              \* the semaphore's available permits
    waiters,              \* the semaphore's FIFO queue of suspended acquirers
    task,                 \* per download future: its position and locals
    files,                \* the filesystem: path -> content, for the paths that exist
    drained,              \* futures whose result the drain loop has consumed
    logged,               \* futures whose Err the drain loop printed
    feed_doc,             \* the environment: the feed served at args.url
    earlier,              \* None in a first run; in a second run of the program
                          \* on the same directory, how the tasks of the first ended
    san_pc, san_in, san_out, san_again   \* a harness applying sanitize_filename

mvars == <<args, phase, exit_code, fatal, channel, max_episodes, index,
           downloaded_episodes, downloads, notices, permits, waiters, task,
           files, drained, logged, feed_doc, earlier>>
svars == <<san_pc, san_in, san_out, san_again>>
vars  == <<args, phase, exit_code, fatal, channel, max_episodes, index,
           downloaded_episodes, downloads, notices, permits, waiters, task,
           files, drained, logged, feed_doc, earlier, san_pc, san_in, san_out,
           san_again>>

None == <<>>
Some(x) == <<x>>

(***************************************************************************)
(* Bounds of the model.                                                    *)
(***************************************************************************)
MaxItems == 2      \* feed items
MaxThreads == 2    \* largest --threads value tried
NumChunks == 2     \* chunks in one response body
MaxLen == 4        \* length of the strings given to sanitize_filename
ShortLen == 2      \* length of those strings that use every character
MaxFeed == 5       \* feed items, where only the selection of episodes is explored

(***************************************************************************)
(* String helpers (std::str, std::path).                                   *)
(***************************************************************************)
MatchesAt(s, pat, i) ==
    /\ i + Len(pat) - 1 <= Len(s)
    /\ \A k \in 1..Len(pat) : s[i + k - 1] = pat[k]

RECURSIVE ReplaceFrom(_, _, _, _)
ReplaceFrom(s, pat, to, i) ==
    IF i > Len(s) THEN <<>>
    ELSE IF MatchesAt(s, pat, i) THEN to \o ReplaceFrom(s, pat, to, i + Len(pat))
    ELSE <<s[i]>> \o ReplaceFrom(s, pat, to, i + 1)

\* str::replace: every non-overlapping match, left to right
StrReplace(s, pat, to) == ReplaceFrom(s, pat, to, 1)

\* char::is_whitespace, on the characters the model uses
IsWhitespace(c) == c \in {" ", "\t", "\n", "\r", "\f"}

RECURSIVE SplitFrom(_, _, _)
SplitFrom(s, i, cur) ==
    IF i > Len(s) THEN (IF cur = <<>> THEN <<>> ELSE <<cur>>)
    ELSE IF IsWhitespace(s[i])
         THEN (IF cur = <<>> THEN <<>> ELSE <<cur>>) \o SplitFrom(s, i + 1, <<>>)
         ELSE SplitFrom(s, i + 1, Append(cur, s[i]))

\* str::split_whitespace: the maximal runs of non-whitespace characters
SplitWhitespace(s) == SplitFrom(s, 1, <<>>)

RECURSIVE Join(_, _)
Join(words, sep) ==
    IF words = <<>> THEN <<>>
    ELSE IF Len(words) = 1 THEN words[1]
    ELSE words[1] \o sep \o Join(Tail(words), sep)

RECURSIVE TrimStart(_)
TrimStart(s) ==
    IF s # <<>> /\ IsWhitespace(Head(s)) THEN TrimStart(Tail(s)) ELSE s

RECURSIVE TrimEnd(_)
TrimEnd(s) ==
    IF s # <<>> /\ IsWhitespace(s[Len(s)]) THEN TrimEnd(SubSeq(s, 1, Len(s) - 1)) ELSE s

Trim(s) == TrimStart(TrimEnd(s))

(***************************************************************************)
(* sanitize_filename                                                       *)
(***************************************************************************)
InvalidChars == {"<", ">", ":", "\"", "/", "\\", "|", "?", "*"}

MapChar(c) ==
    IF c \in InvalidChars THEN "_"
    ELSE IF c \in {"\n", "\r", "\t"} THEN " "
    ELSE c

MapChars(title) == [i \in 1..Len(title) |-> MapChar(title[i])]

\* a sanitizer that maps and trims but does not collapse whitespace runs
sanitize_no_collapse(title) == Trim(MapChars(title))

sanitize_filename(title) ==
    Trim(Join(SplitWhitespace(MapChars(title)), <<" ">>))

(***************************************************************************)
(* Filename composition (main, the body of the scheduling loop) and the    *)
(* metadata path (save_episode_metadata).                                  *)
(***************************************************************************)
RECURSIVE SplitOnFrom(_, _, _, _)
SplitOnFrom(s, sep, i, cur) ==
    IF i > Len(s) THEN <<cur>>
    ELSE IF s[i] = sep THEN <<cur>> \o SplitOnFrom(s, sep, i + 1, <<>>)
    ELSE SplitOnFrom(s, sep, i + 1, Append(cur, s[i]))

\* Path::components, as names: empty pieces and "." pieces are dropped, except a
\* leading "." of a relative path
PathComponents(p) ==
    LET pieces == SplitOnFrom(p, "/", 1, <<>>)
        Keep(i) == /\ pieces[i] # <<>>
                   /\ (pieces[i] = <<".">> => i = 1)
        kept == {i \in 1..Len(pieces) : Keep(i)}
        Nth[n \in 0..Len(pieces)] ==
            IF n = 0 THEN 0 ELSE CHOOSE i \in kept : i > Nth[n - 1] /\ \A j \in kept : j > Nth[n - 1] => i <= j
    IN  [n \in 1..Cardinality(kept) |-> pieces[Nth[n]]]

\* Path::file_name: the last component, when it is a normal one
PathFileName(p) ==
    LET cs == PathComponents(p)
    IN  IF cs = <<>> THEN None
        ELSE IF cs[Len(cs)] \in {<<".">>, <<".", ".">>} THEN None
        ELSE Some(cs[Len(cs)])

LastDot(name) ==
    IF \E i \in 1..Len(name) : name[i] = "."
    THEN CHOOSE i \in 1..Len(name) : name[i] = "." /\ \A j \in (i + 1)..Len(name) : name[j] # "."
    ELSE 0

\* Path::extension: what follows the last dot of the file name, when something
\* precedes that dot
PathExtension(p) ==
    LET fname == PathFileName(p)
    IN  IF fname = None THEN None
        ELSE LET name == fname[1]
                 d == LastDot(name)
             IN  IF d <= 1 THEN None ELSE Some(SubSeq(name, d + 1, Len(name)))

UnwrapOr(opt, default) == IF opt = None THEN default ELSE opt[1]

Mp3 == <<"m", "p", "3">>
UnknownEpisode ==
    <<"U", "n", "k", "n", "o", "w", "n", " ", "E", "p", "i", "s", "o", "d", "e">>

\* A publication date string is modelled by which chrono parser accepts it:
\* "rfc2822" (DateTime::parse_from_rfc2822), "naive" (only the NaiveDateTime
\* format string), or "bad" (neither); the parsed date is 2006-01-02.
PubDateKinds == {"rfc2822", "naive", "bad"}
ParsedDate == <<"2", "0", "0", "6", "-", "0", "1", "-", "0", "2">>

date_prefix(pub_date) ==
    IF pub_date = None THEN <<>>
    ELSE IF pub_date[1] = "rfc2822" THEN ParsedDate \o <<" ", "-", " ">>
    ELSE IF pub_date[1] = "naive" THEN ParsedDate \o <<" ", "-", " ">>
    ELSE <<>>

original_extension(url) == UnwrapOr(PathExtension(url), Mp3)

\* format!("{}{}.{}", date_prefix, sanitized_title, original_extension)
ComposeFilename(item) ==
    date_prefix(item.pub_date)
        \o sanitize_filename(UnwrapOr(item.title, UnknownEpisode))
        \o <<".">>
        \o original_extension(item.enclosure[1])

DotMp3 == <<".", "m", "p", "3">>
DotM4a == <<".", "m", "4", "a">>
DotWav == <<".", "w", "a", "v">>
DotJson == <<".", "j", "s", "o", "n">>

metadata_filename(filename) ==
    StrReplace(StrReplace(StrReplace(filename, DotMp3, DotJson), DotM4a, DotJson),
               DotWav, DotJson)

(***************************************************************************)
(* The environment: feeds, the bytes a server sends, files already there.  *)
(***************************************************************************)
DigitChars == <<"1", "2", "3", "4", "5", "6", "7", "8", "9">>

\* every episode has an enclosure URL of its own
EpisodeUrl(i) == <<"h", "/", "e", DigitChars[i], ".", "m", "p", "3">>

\* enclosure URLs with an extension save_episode_metadata does not know, and
\* with a query string
EpisodeUrlOgg(i) == <<"h", "/", "e", DigitChars[i], ".", "o", "g", "g">>
EpisodeUrlQuery(i) == <<"h", "/", "e", DigitChars[i], ".", "m", "p", "3", "?", "x">>

TitleA == <<"a">>
TitleB == <<"b", "?">>

Item(title, enclosure, pub_date) ==
    [title |-> title, enclosure |-> enclosure, pub_date |-> pub_date]

\* the items a feed may hold at position i
ItemsAt(i) ==
    {Item(Some(TitleA), None, None)}
        \cup {Item(Some(t), Some(EpisodeUrl(i)), None) : t \in {TitleA, TitleB}}

RECURSIVE FeedsOfLen(_)
FeedsOfLen(n) ==
    IF n = 0 THEN {<<>>}
    ELSE {Append(f, it) : f \in FeedsOfLen(n - 1), it \in ItemsAt(n)}

Feeds == UNION {FeedsOfLen(n) : n \in 0..MaxItems}

\* feeds whose episodes all differ in title, with enclosure URLs of each kind
VariedItemsAt(i) ==
    {Item(Some(<<"t", DigitChars[i]>>), Some(url), None) :
        url \in {EpisodeUrl(i), EpisodeUrlOgg(i), EpisodeUrlQuery(i)}}
        \cup {Item(Some(<<"t", DigitChars[i]>>), Some(EpisodeUrl(i)), Some("rfc2822"))}

RECURSIVE VariedFeedsOfLen(_)
VariedFeedsOfLen(n) ==
    IF n = 0 THEN {<<>>}
    ELSE {Append(f, it) : f \in VariedFeedsOfLen(n - 1), it \in VariedItemsAt(n)}

VariedFeeds == UNION {VariedFeedsOfLen(n) : n \in 1..MaxItems}

\* feeds told apart only by which items carry an enclosure
PlainItemsAt(i) ==
    {Item(Some(TitleA), None, None), Item(Some(TitleA), Some(EpisodeUrl(i)), None)}

RECURSIVE PlainFeedsOfLen(_)
PlainFeedsOfLen(n) ==
    IF n = 0 THEN {<<>>}
    ELSE {Append(f, it) : f \in PlainFeedsOfLen(n - 1), it \in PlainItemsAt(n)}

PlainFeeds == UNION {PlainFeedsOfLen(n) : n \in 0..MaxFeed}

\* A byte is <<origin, episode, chunk>>: bytes of different origins differ.
OldByte == <<"old", 0, 0>>     \* content of a file left by an earlier run
ZeroByte == <<"zero", 0, 0>>   \* what the filesystem reads back from a hole

\* the k-th chunk of the response to the request for the enclosure of feed
\* item episode_index (0-based): a chunk of the media, or of the error page of a
\* response with an HTTP error status
ChunkOf(status, episode_index, k) ==
    IF status = "http_error" THEN << <<"error_page", episode_index, k>> >>
    ELSE << <<"media", episode_index, k>> >>

\* to_string_pretty(&metadata)
MetadataJson(episode_index) == << <<"json", episode_index, 0>> >>

PathA == ComposeFilename(Item(Some(TitleA), Some(EpisodeUrl(1)), None))

\* the podcast directory is empty, or holds one file of an earlier run
InitialFiles ==
    {[p \in ps |-> <<OldByte>>] : ps \in {{}, {PathA}}}

(***************************************************************************)
(* main: the orchestrator                                                  *)
(***************************************************************************)
\* an existence check that never finds the file
ExistsNever(path) == FALSE

\* line 94: Path::new(&file_path).exists()
Exists(path) == path \in DOMAIN files

CountChoices(n) == {None} \cup {Some(c) : c \in 0..n}

ArgChoices(n) ==
    [count : CountChoices(n), threads : 0..MaxThreads, metadata : BOOLEAN]

SanIdle ==
    /\ san_pc = "off"
    /\ san_in = <<>>
    /\ san_out = <<>>
    /\ san_again = <<>>

MainStart ==
    /\ phase = "Init"
    /\ exit_code = None
    /\ fatal = "none"
    /\ channel = <<>>
    /\ max_episodes = 0
    /\ index = 0
    /\ downloaded_episodes = 0
    /\ downloads = <<>>
    /\ notices = {}
    /\ permits = 0
    /\ waiters = <<>>
    /\ task = <<>>
    /\ drained = {}
    /\ logged = {}

Init ==
    /\ args \in ArgChoices(1)
    /\ feed_doc \in Feeds
    /\ files \in InitialFiles
    /\ earlier = None
    /\ MainStart
    /\ SanIdle

\* main returns Err through `?`: the process exits nonzero
Abort(step) ==
    /\ phase' = "Aborted"
    /\ exit_code' = Some(1)
    /\ fatal' = step

\* lines 183-188: fetch the feed bytes and parse them
FetchFeed ==
    /\ phase = "Init"
    /\ \E outcome \in {"ok", "fetch", "parse"} :
          IF outcome = "ok"
          THEN /\ phase' = "FeedFetched"
               /\ channel' = feed_doc
               /\ UNCHANGED <<exit_code, fatal>>
          ELSE /\ Abort(outcome)
               /\ UNCHANGED channel
    /\ UNCHANGED <<args, max_episodes, index, downloaded_episodes, downloads,
                   notices, permits, waiters, task, files, drained, logged,
                   feed_doc, earlier,
                   svars>>

\* a limiter with one permit too many
SemaphoreOffByOne(threads) == threads + 1

\* line 198: Semaphore::new(args.threads)
SemaphoreNew(threads) == threads

\* lines 189-201: create the podcast directory, then set up the run
CreateDir ==
    /\ phase = "FeedFetched"
    /\ \E ok \in BOOLEAN :
          IF ok
          THEN /\ phase' = "DirectoryReady"
               /\ max_episodes' = UnwrapOr(args.count, Len(channel))
               /\ permits' = SemaphoreNew(args.threads)
               /\ UNCHANGED <<exit_code, fatal>>
          ELSE /\ Abort("mkdir")
               /\ UNCHANGED <<max_episodes, permits>>
    /\ UNCHANGED <<args, channel, index, downloaded_episodes, downloads, notices,
                   waiters, task, files, drained, logged, feed_doc, earlier,
                   svars>>

\* finished: the progress bar of the task has shown "Finished: <filename>"
NewTask ==
    [pc |-> "pending", outcome |-> "none", error |-> "none", status |-> "none",
     got |-> 0, downloaded |-> 0, requests |-> 0, meta |-> "none",
     finished |-> FALSE]

NewDownload(item, i) ==
    [url |-> item.enclosure[1], filename |-> ComposeFilename(item),
     episode_index |-> i, item |-> item]

\* a cap that counts the items visited, with or without an enclosure
LoopBreaksOnIndex == index = max_episodes

\* lines 204-206: if downloaded_episodes == max_episodes { break; }
LoopBreaks == downloaded_episodes = max_episodes

\* lines 203-259, one iteration of the loop over channel.items()
ScheduleItem ==
    /\ phase = "DirectoryReady"
    /\ index < Len(channel)
    /\ ~LoopBreaks
    /\ LET item == channel[index + 1]
       IN  IF item.enclosure # None
           THEN /\ downloads' = Append(downloads, NewDownload(item, index))
                /\ task' = Append(task, NewTask)
                /\ downloaded_episodes' = downloaded_episodes + 1
                /\ UNCHANGED notices
           ELSE /\ notices' = notices \cup {index}
                /\ UNCHANGED <<downloads, task, downloaded_episodes>>
    /\ index' = index + 1
    /\ UNCHANGED <<args, phase, exit_code, fatal, channel, max_episodes, permits,
                   waiters, files, drained, logged, feed_doc, earlier,
                   svars>>

\* lines 203-206: the loop ends, by exhaustion or by the break
ScheduleEnd ==
    /\ phase = "DirectoryReady"
    /\ index = Len(channel) \/ LoopBreaks
    /\ phase' = "TasksScheduled"
    /\ UNCHANGED <<args, exit_code, fatal, channel, max_episodes, index,
                   downloaded_episodes, downloads, notices, permits, waiters,
                   task, files, drained, logged, feed_doc, earlier,
                   svars>>

(***************************************************************************)
(* download_episode: one future per scheduled episode, and the drain loop  *)
(* that polls them.  Nothing runs before phase "Draining": the futures are *)
(* polled by downloads.next() only.  An action is the code between two     *)
(* await points; the poll in which a future returns is also the poll in    *)
(* which downloads.next() yields its result to the body of the drain loop. *)
(***************************************************************************)
Tasks == DOMAIN task

Path(t) == downloads[t].filename

\* a "Finished" message shown by every download that ends, failed or not
FinishedOnAnyEnd(outcome) == outcome \in {"Completed", "Failed"}

\* line 155: pb.finish_with_message("... Finished: ...") is reached only when
\* the chunk loop has ended without an error, right before Ok(())
Finished(outcome) == outcome = "Completed"

\* the future returns: its locals (response, dest, downloaded) are dropped
Returned(tk, t, outcome, error) ==
    [tk EXCEPT ![t].pc = "done", ![t].outcome = outcome, ![t].error = error,
               ![t].status = "none", ![t].got = 0, ![t].downloaded = 0,
               ![t].finished = Finished(outcome)]

\* the semaphore hands a released permit to the first queued acquirer, if any
Granted(tk) ==
    IF waiters = <<>> THEN tk ELSE [tk EXCEPT ![Head(waiters)].pc = "acquired"]

\* a permit that is kept when the future ends in an error
DropPermitUnlessFailed(tk, t) ==
    IF tk[t].outcome = "Failed"
    THEN /\ task' = tk
         /\ UNCHANGED <<permits, waiters>>
    ELSE /\ task' = Granted(tk)
         /\ permits' = (IF waiters = <<>> THEN permits + 1 ELSE permits)
         /\ waiters' = (IF waiters = <<>> THEN <<>> ELSE Tail(waiters))

\* _permit is dropped when the future of task t returns, whatever it returns
DropPermit(tk, t) ==
    /\ task' = Granted(tk)
    /\ permits' = (IF waiters = <<>> THEN permits + 1 ELSE permits)
    /\ waiters' = (IF waiters = <<>> THEN <<>> ELSE Tail(waiters))

\* a drain loop that returns the first Err with `?`
PropagateResult(t, outcome) ==
    /\ drained' = drained \cup {t}
    /\ IF outcome = "Failed"
       THEN /\ Abort("download")
            /\ UNCHANGED logged
       ELSE UNCHANGED <<logged, phase, exit_code, fatal>>

\* lines 262-266: the body of the drain loop prints an Err, nothing else
HandleResult(t, outcome) ==
    /\ drained' = drained \cup {t}
    /\ logged' = (IF outcome = "Failed" THEN logged \cup {t} ELSE logged)
    /\ UNCHANGED <<phase, exit_code, fatal>>

\* the future of task t returns and the drain loop takes its result
Return(tk, t) ==
    /\ DropPermit(tk, t)
    /\ HandleResult(t, tk[t].outcome)

\* the future of task t stays pending
Suspend == UNCHANGED <<permits, waiters, drained, logged, phase, exit_code, fatal>>

\* line 89: semaphore.acquire().await
Acquire(t) ==
    /\ phase = "Draining"
    /\ task[t].pc = "pending"
    /\ IF permits > 0
       THEN /\ permits' = permits - 1
            /\ task' = [task EXCEPT ![t].pc = "acquired"]
            /\ UNCHANGED waiters
       ELSE /\ waiters' = Append(waiters, t)
            /\ task' = [task EXCEPT ![t].pc = "waiting"]
            /\ UNCHANGED permits
    /\ UNCHANGED <<args, phase, exit_code, fatal, channel, max_episodes, index,
                   downloaded_episodes, downloads, notices, files, drained,
                   logged, feed_doc, earlier,
                   svars>>

\* lines 69-73: std::fs::write(metadata_path, metadata_json)
WriteMetadata(fs, t) ==
    LET path == metadata_filename(Path(t))
        json == MetadataJson(downloads[t].episode_index)
    IN  [p \in DOMAIN fs \cup {path} |-> IF p = path THEN json ELSE fs[p]]

\* a metadata failure that ends the task
MetadataErrorFails(tk, t) == Returned(tk, t, "Failed", "metadata")

\* lines 112-114: the error of save_episode_metadata is printed and dropped
MetadataErrorWarns(tk, t) == [tk EXCEPT ![t].meta = "warned"]

\* lines 91-126: the existence check, the metadata write, the request.  The
\* task goes on to the request unless the metadata step has ended it.
CheckExists(t) ==
    /\ phase = "Draining"
    /\ task[t].pc = "acquired"
    /\ IF Exists(Path(t))
       THEN /\ task' = [task EXCEPT ![t].pc = "skip_delay"]
            /\ Suspend
            /\ UNCHANGED files
       ELSE \E meta_ok \in BOOLEAN :
               /\ (~args.metadata) => meta_ok
               /\ LET tk1 == IF ~args.metadata THEN task
                             ELSE IF meta_ok THEN [task EXCEPT ![t].meta = "written"]
                             ELSE MetadataErrorWarns(task, t)
                  IN  IF tk1[t].pc = "done"
                      THEN /\ Return(tk1, t)
                           /\ UNCHANGED files
                      ELSE /\ task' = [tk1 EXCEPT ![t].pc = "fetching",
                                                  ![t].requests = @ + 1]
                           /\ files' = (IF args.metadata /\ meta_ok
                                        THEN WriteMetadata(files, t) ELSE files)
                           /\ Suspend
    /\ UNCHANGED <<args, channel, max_episodes, index, downloaded_episodes,
                   downloads, notices, feed_doc, earlier,
                   svars>>

\* lines 104-107: the skip delay is over
SkipDone(t) ==
    /\ phase = "Draining"
    /\ task[t].pc = "skip_delay"
    /\ Return(Returned(task, t, "Skipped", "none"), t)
    /\ UNCHANGED <<args, channel, max_episodes, index, downloaded_episodes,
                   downloads, notices, files, feed_doc, earlier,
                   svars>>

\* File::create: the file exists afterwards and is empty
CreateFile(fs, path) ==
    [p \in DOMAIN fs \cup {path} |-> IF p = path THEN <<>> ELSE fs[p]]

\* lines 126-146: the response arrives (reqwest::get resolves on any HTTP
\* status and fails on a connection error only), the file is created
FetchResponse(t) ==
    /\ phase = "Draining"
    /\ task[t].pc = "fetching"
    /\ \E r \in {"conn_error", "ok", "http_error"} :
          IF r = "conn_error"
          THEN /\ Return(Returned(task, t, "Failed", "fetch"), t)
               /\ UNCHANGED files
          ELSE \E created \in BOOLEAN :
                  LET tk1 == [task EXCEPT ![t].status = r]
                  IN  IF created
                      THEN /\ task' = [tk1 EXCEPT ![t].pc = "streaming"]
                           /\ files' = CreateFile(files, Path(t))
                           /\ Suspend
                      ELSE /\ Return(Returned(tk1, t, "Failed", "create"), t)
                           /\ UNCHANGED files
    /\ UNCHANGED <<args, channel, max_episodes, index, downloaded_episodes,
                   downloads, notices, feed_doc, earlier,
                   svars>>

\* a write that starts at the beginning of the file each time
WriteAtStart(content, pos, bytes) ==
    bytes \o SubSeq(content, Len(bytes) + 1, Len(content))

\* a write through a file handle whose offset is pos
WriteAt(content, pos, bytes) ==
    LET padded == IF Len(content) < pos
                  THEN content \o [i \in 1..(pos - Len(content)) |-> ZeroByte]
                  ELSE content
    IN  SubSeq(padded, 1, pos) \o bytes
            \o SubSeq(padded, pos + Len(bytes) + 1, Len(padded))

\* lines 146-157: response.chunk() resolves
NextChunk(t) ==
    /\ phase = "Draining"
    /\ task[t].pc = "streaming"
    /\ \E ev \in {"data", "end", "error"} :
          /\ ev = "data" => task[t].got < NumChunks
          /\ ev = "end" => task[t].got = NumChunks
          /\ IF ev = "data"
             THEN \E written \in BOOLEAN :
                     LET chunk == ChunkOf(task[t].status, downloads[t].episode_index,
                                          task[t].got + 1)
                         tk1 == [task EXCEPT ![t].got = @ + 1]
                     IN  IF written
                         THEN /\ files' = [files EXCEPT ![Path(t)] =
                                             WriteAt(@, task[t].downloaded, chunk)]
                              /\ task' = [tk1 EXCEPT ![t].downloaded = @ + Len(chunk)]
                              /\ Suspend
                         ELSE /\ Return(Returned(tk1, t, "Failed", "write"), t)
                              /\ UNCHANGED files
             ELSE IF ev = "end"
             THEN /\ Return(Returned(task, t, "Completed", "none"), t)
                  /\ UNCHANGED files
             ELSE /\ Return(Returned(task, t, "Failed", "chunk"), t)
                  /\ UNCHANGED files
    /\ UNCHANGED <<args, channel, max_episodes, index, downloaded_episodes,
                   downloads, notices, feed_doc, earlier,
                   svars>>

\* line 262, first poll of downloads.next()
StartDrain ==
    /\ phase = "TasksScheduled"
    /\ phase' = "Draining"
    /\ UNCHANGED <<args, exit_code, fatal, channel, max_episodes, index,
                   downloaded_episodes, downloads, notices, permits, waiters,
                   task, files, drained, logged, feed_doc, earlier,
                   svars>>

\* an exit status that reports the failed downloads
ExitCodeFromLog == IF logged # {} THEN Some(1) ELSE Some(0)

\* line 268: Ok(())
MainReturn == Some(0)

\* lines 262, 268: downloads.next() yields None, main returns Ok(())
DrainEnd ==
    /\ phase = "Draining"
    /\ drained = Tasks
    /\ phase' = "Done"
    /\ exit_code' = MainReturn
    /\ UNCHANGED <<args, fatal, channel, max_episodes, index, downloaded_episodes,
                   downloads, notices, permits, waiters, task, files, drained,
                   logged, feed_doc, earlier,
                   svars>>

TaskStep(t) ==
    \/ Acquire(t)
    \/ CheckExists(t)
    \/ SkipDone(t)
    \/ FetchResponse(t)
    \/ NextChunk(t)

Next ==
    \/ FetchFeed
    \/ CreateDir
    \/ ScheduleItem
    \/ ScheduleEnd
    \/ StartDrain
    \/ \E t \in Tasks : TaskStep(t)
    \/ DrainEnd

Spec == Init /\ [][Next]_vars

\* Runs that download every episode of the feed with at least one permit,
\* where the program keeps running while it has a step to take.
FairInit ==
    /\ args \in [count : {None}, threads : 1..MaxThreads, metadata : BOOLEAN]
    /\ feed_doc \in Feeds
    /\ files \in InitialFiles
    /\ earlier = None
    /\ MainStart
    /\ SanIdle

FairSpec == FairInit /\ [][Next]_vars /\ WF_vars(Next)

\* Every --threads value of the model, 0 included, where the program keeps
\* running while it has a step to take.
LiveSpec == Init /\ [][Next]_vars /\ WF_vars(Next)

(***************************************************************************)
(* The program run twice on the same directory with the same arguments and *)
(* the same feed, over feeds with enclosure URLs of every kind.            *)
(***************************************************************************)
VariedInit ==
    /\ args \in [count : {None}, threads : 1..MaxThreads, metadata : BOOLEAN]
    /\ feed_doc \in VariedFeeds
    /\ files = <<>>
    /\ earlier = None
    /\ MainStart
    /\ SanIdle

\* the process has exited with status 0 and the command is given again: main
\* starts over; of the first run only the files are left
Rerun ==
    /\ phase = "Done"
    /\ earlier = None
    /\ earlier' = Some([t \in Tasks |-> [outcome |-> task[t].outcome,
                                         error |-> task[t].error]])
    /\ phase' = "Init"
    /\ exit_code' = None
    /\ fatal' = "none"
    /\ channel' = <<>>
    /\ max_episodes' = 0
    /\ index' = 0
    /\ downloaded_episodes' = 0
    /\ downloads' = <<>>
    /\ notices' = {}
    /\ permits' = 0
    /\ waiters' = <<>>
    /\ task' = <<>>
    /\ drained' = {}
    /\ logged' = {}
    /\ UNCHANGED <<args, files, feed_doc, svars>>

RerunNext == Next \/ Rerun

RerunSpec == VariedInit /\ [][RerunNext]_vars

(***************************************************************************)
(* The selection of episodes alone, over longer feeds.                     *)
(***************************************************************************)
SelInit ==
    /\ args \in [count : CountChoices(MaxFeed), threads : {1}, metadata : {FALSE}]
    /\ feed_doc \in PlainFeeds
    /\ files = <<>>
    /\ earlier = None
    /\ MainStart
    /\ SanIdle

SelNext ==
    \/ FetchFeed
    \/ CreateDir
    \/ ScheduleItem
    \/ ScheduleEnd

SelSpec == SelInit /\ [][SelNext]_vars

(***************************************************************************)
(* sanitize_filename applied to a string, then to its own result.          *)
(***************************************************************************)
SanAlphabet ==
    InvalidChars \cup {" ", "\t", "\n", "\r", "\f", "a", "_"}

CoreAlphabet == {"/", " ", "\t", "\f", "a"}

RECURSIVE StringsOver(_, _)
StringsOver(alphabet, n) ==
    IF n = 0 THEN {<<>>}
    ELSE LET shorter == StringsOver(alphabet, n - 1)
         IN  shorter \cup {Append(w, c) : w \in shorter, c \in alphabet}

\* every string of at most ShortLen characters, and the strings of at most
\* MaxLen characters over a smaller alphabet
SanInputs == StringsOver(SanAlphabet, ShortLen) \cup StringsOver(CoreAlphabet, MaxLen)

MainIdle ==
    /\ args = [count |-> None, threads |-> 1, metadata |-> FALSE]
    /\ feed_doc = <<>>
    /\ files = <<>>
    /\ earlier = None
    /\ MainStart

SanInit ==
    /\ MainIdle
    /\ san_pc = "start"
    /\ san_in \in SanInputs
    /\ san_out = <<>>
    /\ san_again = <<>>

SanitizeOnce ==
    /\ san_pc = "start"
    /\ san_out' = sanitize_filename(san_in)
    /\ san_pc' = "once"
    /\ UNCHANGED <<san_in, san_again, mvars>>

SanitizeAgain ==
    /\ san_pc = "once"
    /\ san_again' = sanitize_filename(san_out)
    /\ san_pc' = "twice"
    /\ UNCHANGED <<san_in, san_out, mvars>>

SanNext == SanitizeOnce \/ SanitizeAgain

SanSpec == SanInit /\ [][SanNext]_vars

(***************************************************************************)
(* Properties                                                              *)
(***************************************************************************)
Min(a, b) == IF a <= b THEN a ELSE b

LimiterExists == phase \in {"DirectoryReady", "TasksScheduled", "Draining", "Done"}

\* the task holds a permit: acquire has returned and the future has not
Holding(t) == task[t].pc \in {"acquired", "skip_delay", "fetching", "streaming"}

Terminal(t) == task[t].pc = "done"

InFlight == {t \in Tasks : Holding(t)}

\* C1: with a limiter of capacity C >= 1, never more than C tasks are past
\* the acquire step and not yet terminated, and no task leaves Pending before
\* every task has been created (the scheduling loop is over).
C1_AtMostCInFlight ==
    /\ args.threads >= 1 => Cardinality(InFlight) <= args.threads
    /\ (\E t \in Tasks : task[t].pc # "pending") => phase \in {"Draining", "Done"}

\* C1 witness: more tasks than permits, every permit in use, a task queued
C1_Witness ==
    /\ args.threads >= 1
    /\ Len(task) > args.threads
    /\ Cardinality(InFlight) = args.threads
    /\ \E t \in Tasks : task[t].pc = "streaming"
    /\ \E t \in Tasks : task[t].pc = "waiting"

\* what a step may do to a task other than the one that takes it: nothing,
\* except hand it the permit it was queued for
Untouched(u) ==
    \/ task'[u] = task[u]
    \/ /\ task[u].pc = "waiting"
       /\ task'[u] = [task[u] EXCEPT !.pc = "acquired"]

C3_SkipTouchesNothing ==
    /\ [][\A t \in Tasks :
            (task[t].pc = "acquired" /\ Path(t) \in DOMAIN files
                 /\ task'[t].pc # "acquired")
                => /\ task'[t].pc = "skip_delay"
                   /\ task'[t].requests = 0
                   /\ files' = files]_vars
    /\ [][\A t \in Tasks :
            (task[t].pc = "skip_delay" /\ task'[t].pc # "skip_delay")
                => /\ task'[t].outcome = "Skipped"
                   /\ task'[t].requests = 0
                   /\ files' = files]_vars
    /\ [](\A t \in Tasks :
            task[t].outcome = "Skipped" => task[t].requests = 0)

\* C3 witness: a task skipped a file left by an earlier run, which is intact
C3_Witness ==
    \E t \in Tasks :
        /\ task[t].outcome = "Skipped"
        /\ Path(t) \in DOMAIN files
        /\ files[Path(t)] = <<OldByte>>

HasEnclosure(feed, i) == feed[i].enclosure # None

\* the 0-based indices of the feed items that have an enclosure, in feed order
EligibleIndices(feed) ==
    LET idx == [i \in 1..Len(feed) |-> i]
        Test(i) == HasEnclosure(feed, i)
        picked == SelectSeq(idx, Test)
    IN  [n \in 1..Len(picked) |-> picked[n] - 1]

ExpectedSelection ==
    LET cap == UnwrapOr(args.count, Len(feed_doc))
        eligible == EligibleIndices(feed_doc)
    IN  SubSeq(eligible, 1, Min(cap, Len(eligible)))

ScheduledIndices == [t \in 1..Len(downloads) |-> downloads[t].episode_index]

\* C4: once the scheduling loop is over, the scheduled tasks are the first
\* min(cap, eligible) feed items that have an enclosure, in feed order, each
\* with its own enclosure URL; an item without an enclosure is never scheduled.
C4_Selection ==
    /\ phase \in {"TasksScheduled", "Draining", "Done"} =>
          /\ ScheduledIndices = ExpectedSelection
          /\ \A t \in 1..Len(downloads) :
                Some(downloads[t].url) = feed_doc[downloads[t].episode_index + 1].enclosure
    /\ \A i \in notices : feed_doc[i + 1].enclosure = None
    /\ Len(task) = Len(downloads)

\* C4 witness: five eligible items and a cap of two, two tasks scheduled
C4_Witness ==
    /\ phase = "TasksScheduled"
    /\ args.count = Some(2)
    /\ Len(EligibleIndices(feed_doc)) = 5
    /\ ScheduledIndices = <<0, 1>>

\* C4 second witness: an item without an enclosure did not use up the cap
C4_WitnessNoEnclosure ==
    /\ phase = "TasksScheduled"
    /\ args.count = Some(2)
    /\ ScheduledIndices = <<1, 3>>

\* the network and file effects of task t: a request, a metadata record, a
\* created file, a written chunk
Effects(t) == <<task[t].requests, task[t].meta, task[t].status, task[t].downloaded>>

\* C5: once the limiter exists, available permits + tasks holding one = C; a
\* task takes one permit when its acquire succeeds and gives it back in the
\* step in which it returns, whatever its outcome; it issues requests and
\* writes files only while it holds the permit; when every task has returned,
\* all C permits are available.
C5_LimiterDiscipline ==
    /\ [](LimiterExists => permits + Cardinality(InFlight) = args.threads)
    /\ [](\A t \in Tasks : task[t].pc \in {"pending", "waiting"} =>
             Effects(t) = <<0, "none", "none", 0>>)
    /\ [][\A t \in Tasks : Effects(t)' # Effects(t) => Holding(t)]_vars
    /\ [][files' # files => \E t \in Tasks : Holding(t) /\ task'[t] # task[t]]_vars
    /\ [][\A t \in Tasks : (Holding(t) /\ ~Holding(t)') => Terminal(t)']_vars
    /\ []((LimiterExists /\ \A t \in Tasks : Terminal(t)) => permits = args.threads)

\* C5 witness: one permit, two tasks, one Failed and one Skipped, the permit
\* is back
C5_Witness ==
    /\ args.threads = 1
    /\ permits = 1
    /\ \E t, u \in Tasks :
          /\ task[t].outcome = "Failed"
          /\ task[u].outcome = "Skipped"

\* C6: with C >= 1 and a run that keeps taking steps, once the tasks are
\* scheduled every one of them reaches Skipped, Completed or Failed, every
\* result is drained, and main reaches Done.
C6_DrainsToCompletion ==
    (phase = "TasksScheduled" /\ args.threads >= 1)
        ~> (/\ phase = "Done"
            /\ drained = Tasks
            /\ \A t \in Tasks : task[t].outcome \in {"Skipped", "Completed", "Failed"})

\* C6 witness: more tasks than permits, all drained, with mixed outcomes
C6_Witness ==
    /\ phase = "Done"
    /\ args.threads >= 1
    /\ Len(task) > args.threads
    /\ \E t, u \in Tasks :
          /\ task[t].outcome = "Failed"
          /\ task[u].outcome = "Completed"

PhaseOrder ==
    <<"Init", "FeedFetched", "DirectoryReady", "TasksScheduled", "Draining", "Done">>

PhaseStep(p, q) == \E i \in 1..(Len(PhaseOrder) - 1) : p = PhaseOrder[i] /\ q = PhaseOrder[i + 1]

C8_ExitZero ==
    /\ (phase \in {"TasksScheduled", "Draining"} \/ downloads # <<>>) =>
          exit_code \in {None, Some(0)}
    /\ phase = "Done" <=> exit_code = Some(0)

\* C8 witness: every scheduled task Failed and the exit status is zero
C8_Witness ==
    /\ exit_code = Some(0)
    /\ Len(task) >= 2
    /\ \A t \in Tasks : task[t].outcome = "Failed"

MediaErrors == {"fetch", "create", "chunk", "write"}

\* C9: with metadata enabled, the step that fails to write the metadata
\* record still issues the fetch; a task ends Failed only on a media fetch,
\* file creation, chunk read or chunk write error.
C9_MetadataFailureNonFatal ==
    /\ [][\A t \in Tasks :
            (task[t].pc = "acquired" /\ Path(t) \notin DOMAIN files
                 /\ task'[t].pc # "acquired")
                => /\ task'[t].pc = "fetching"
                   /\ task'[t].requests = 1]_vars
    /\ [](\A t \in Tasks :
            /\ task[t].outcome = "Failed" => task[t].error \in MediaErrors
            /\ task[t].meta = "warned" => task[t].requests = 1)

\* C9 witness: the metadata write failed and the task Completed
C9_Witness ==
    /\ args.metadata
    /\ \E t \in Tasks :
          /\ task[t].meta = "warned"
          /\ task[t].outcome = "Completed"

Clean(s) ==
    /\ \A i \in 1..Len(s) : s[i] \notin InvalidChars \cup {"\t", "\n", "\r"}
    /\ ~\E i \in 1..(Len(s) - 1) : IsWhitespace(s[i]) /\ IsWhitespace(s[i + 1])
    /\ s # <<>> => ~IsWhitespace(s[1]) /\ ~IsWhitespace(s[Len(s)])

\* C10: sanitize_filename applied to its own result returns it unchanged; the
\* result holds none of < > : " / \ | ? *, no tab, newline or carriage return,
\* no two adjacent whitespace characters, no leading or trailing whitespace;
\* the empty string maps to the empty string.
C10_SanitizeIdempotent ==
    /\ san_pc \in {"once", "twice"} =>
          /\ Clean(san_out)
          /\ san_in = <<>> => san_out = <<>>
    /\ san_pc = "twice" => san_again = san_out

\* C10 witness: an input with an invalid character and a run of whitespace
C10_Witness ==
    /\ san_pc = "twice"
    /\ san_in = <<"/", "\t", " ">>
    /\ san_out = <<"_">>

\* C10 second witness: a run of whitespace inside the string
C10_WitnessInner ==
    /\ san_pc = "twice"
    /\ san_in = <<"a", "\t", "\f", "/">>
    /\ san_out = <<"a", " ", "_">>

\* the state of a download task, in the terms of the task state machine
TaskState(tk) ==
    IF tk.pc = "done" THEN tk.outcome
    ELSE IF tk.pc \in {"fetching", "streaming"} THEN "Downloading"
    ELSE "Pending"

TaskMoves ==
    {<<"Pending", "Skipped">>, <<"Pending", "Downloading">>,
     <<"Downloading", "Completed">>, <<"Downloading", "Failed">>}

\* C11: a task moves only Pending -> Skipped, Pending -> Downloading,
\* Downloading -> Completed or Downloading -> Failed; once it is Skipped,
\* Completed or Failed nothing of it changes any more (no request, no event)
\* and no step that changes a file is taken without a task that is not yet
\* terminal; a task that has returned has exactly one of the three outcomes;
\* the "Finished" event is shown by the tasks that end Completed and by no
\* other.
C11_TaskStateMachine ==
    /\ [][\A t \in Tasks :
            TaskState(task'[t]) # TaskState(task[t])
                => <<TaskState(task[t]), TaskState(task'[t])>> \in TaskMoves]_vars
    /\ [][\A t \in Tasks : Terminal(t) => task'[t] = task[t]]_vars
    /\ [][files' # files =>
            \E t \in Tasks : ~Terminal(t) /\ task'[t] # task[t]
                                /\ TaskState(task'[t]) = "Downloading"]_vars
    /\ [](\A t \in Tasks :
            /\ Terminal(t) <=> task[t].outcome \in {"Skipped", "Completed", "Failed"}
            /\ task[t].finished <=> task[t].outcome = "Completed")

\* C11 witness: one task Completed and showed "Finished", one Failed after it
\* had started downloading, neither event nor request for the failed one
C11_Witness ==
    /\ phase = "Done"
    /\ \E t, u \in Tasks :
          /\ task[t].outcome = "Completed" /\ task[t].finished
          /\ task[u].outcome = "Failed" /\ task[u].error = "chunk"
          /\ ~task[u].finished

\* C12: with --metadata and no failing metadata write, every scheduled
\* episode's task writes its metadata record, exactly once, whether the media
\* file was already there (Skipped), was downloaded (Completed) or failed
\* (Failed); the record is written in the step that also issues the request,
\* so neither waits for the other.
C12_MetadataOncePerEpisode ==
    /\ [](args.metadata =>
            \A t \in Tasks :
                (Terminal(t) /\ task[t].meta # "warned") => task[t].meta = "written")
    /\ [][\A t \in Tasks :
            /\ task[t].meta # "none" => task'[t].meta = task[t].meta
            /\ (task[t].meta = "none" /\ task'[t].meta = "written")
                  => /\ task'[t].requests = 1
                     /\ args.metadata]_vars
\* a filename without its extension: what precedes the last dot
Stem(filename) == SubSeq(filename, 1, LastDot(filename) - 1)

\* C13: whatever the extension of the destination filename, the metadata
\* record of a task is written to the path with the same basename and the
\* extension .json, which is not the media destination path; the step that
\* writes the record leaves the media destination path as it was (absent).
C13_MetadataSiblingPath ==
    /\ [](\A t \in Tasks :
            task[t].meta = "written" =>
                /\ metadata_filename(Path(t)) = Stem(Path(t)) \o DotJson
                /\ metadata_filename(Path(t)) # Path(t))
    /\ [][\A t \in Tasks :
            (t \in DOMAIN task' /\ task[t].meta = "none" /\ task'[t].meta = "written")
                => /\ Path(t) \notin DOMAIN files
                   /\ Path(t) \notin DOMAIN files']_vars
\* the step in which task t ends Failed with the given kind of error
FailsWith(t, errors) ==
    /\ t \in DOMAIN task'
    /\ task[t].outcome # "Failed"
    /\ task'[t].outcome = "Failed"
    /\ task'[t].error \in errors

\* C14: a task that ends Failed on a chunk read or a chunk write leaves its
\* destination file on disk, and in a second run the task of that episode
\* issues no request and returns Skipped; a task that ends Failed on the
\* fetch itself leaves no file at its destination path, and in a second run
\* the task of that episode issues the request again.
C14_NoPartialCleanup ==
    /\ [][\A t \in Tasks :
            /\ FailsWith(t, {"chunk", "write"}) => Path(t) \in DOMAIN files'
            /\ FailsWith(t, {"fetch"}) => Path(t) \notin DOMAIN files']_vars
    /\ [](earlier # None =>
            \A t \in Tasks :
                /\ earlier[1][t].error \in {"chunk", "write"} =>
                      /\ task[t].requests = 0
                      /\ Terminal(t) => task[t].outcome = "Skipped"
                /\ earlier[1][t].error = "fetch" =>
                      (Terminal(t) => task[t].requests = 1))
RECURSIVE BodyUpTo(_, _, _)
\* the first n chunks of a response, concatenated in arrival order
BodyUpTo(status, episode_index, n) ==
    IF n = 0 THEN <<>>
    ELSE BodyUpTo(status, episode_index, n - 1) \o ChunkOf(status, episode_index, n)

\* the complete media body served for the episode of task t
MediaBody(t) == BodyUpTo("ok", downloads[t].episode_index, NumChunks)

\* the file at path p was not there before the run (a file that was there is
\* only ever skipped, so it still holds the content the earlier run left)
NotThereBefore(p) == p \in DOMAIN files => files[p] # <<OldByte>>

\* bytes of the error page of an HTTP error response are in the file at p
HoldsErrorPage(p) ==
    /\ p \in DOMAIN files
    /\ \E i \in 1..Len(files[p]) : files[p][i][1] = "error_page"

\* C15: with C >= 1, when the run is over and two tasks had the same
\* destination path, which was not there before the run, and neither fetch
\* failed (neither task Failed, no HTTP error page), then both tasks wrote
\* the file (both Completed, none Skipped) and the file holds the complete
\* body of one of the two, the one that wrote last, and no mixture.
C15_LastWriterWins ==
    (phase = "Done" /\ args.threads >= 1) =>
        \A t, u \in Tasks :
            (/\ t # u
             /\ Path(t) = Path(u)
             /\ NotThereBefore(Path(t))
             /\ ~HoldsErrorPage(Path(t))
             /\ task[t].outcome # "Failed"
             /\ task[u].outcome # "Failed")
                => /\ task[t].outcome = "Completed"
                   /\ task[u].outcome = "Completed"
                   /\ Path(t) \in DOMAIN files
                   /\ files[Path(t)] \in {MediaBody(t), MediaBody(u)}
\* no other task of the run has the destination path of t as its destination
\* or as its metadata path
Unshared(t) ==
    \A u \in Tasks \ {t} :
        /\ Path(u) # Path(t)
        /\ metadata_filename(Path(u)) # Path(t)

\* the responses a task can have got past the fetch with
Statuses == {"ok", "http_error"}

\* C16: for a task whose destination path no other task uses, from the moment
\* it has created the file: while it streams, the file holds exactly the
\* chunks received so far, concatenated in arrival order, and the byte
\* counter equals the length of the file; each chunk written is appended to
\* what the file held; when the task has Completed the file holds the whole
\* body; when it has Failed while streaming the file holds a prefix of the
\* body.
C16_ChunksInOrder ==
    /\ [](\A t \in Tasks : Unshared(t) =>
            LET i == downloads[t].episode_index
            IN  /\ task[t].pc = "streaming" =>
                      /\ Path(t) \in DOMAIN files
                      /\ files[Path(t)] = BodyUpTo(task[t].status, i, task[t].got)
                      /\ task[t].downloaded = Len(files[Path(t)])
                /\ task[t].outcome = "Completed" =>
                      /\ Path(t) \in DOMAIN files
                      /\ \E st \in Statuses :
                            files[Path(t)] = BodyUpTo(st, i, NumChunks)
                /\ (task[t].outcome = "Failed" /\ task[t].error \in {"chunk", "write"}) =>
                      /\ Path(t) \in DOMAIN files
                      /\ \E st \in Statuses, n \in 0..NumChunks :
                            files[Path(t)] = BodyUpTo(st, i, n))
    /\ [][\A t \in Tasks :
            (/\ Unshared(t)
             /\ t \in DOMAIN task'
             /\ task[t].pc = "streaming"
             /\ task'[t].pc = "streaming"
             /\ task'[t].got = task[t].got + 1)
                => files'[Path(t)] =
                      files[Path(t)] \o ChunkOf(task[t].status, downloads[t].episode_index,
                                                task[t].got + 1)]_vars

\* C16 witness: two tasks with different paths run at once; one has Completed
\* and its file is the whole body, the other has written its first chunk
C16_Witness ==
    \E t, u \in Tasks :
        /\ Unshared(t)
        /\ Unshared(u)
        /\ task[t].outcome = "Completed"
        /\ files[Path(t)] = MediaBody(t)
        /\ task[u].pc = "streaming"
        /\ task[u].got = 1
        /\ files[Path(u)] = BodyUpTo("ok", downloads[u].episode_index, 1)
        /\ args.threads = 2

\* C17: the step in which the fetch of a task ends in a connection error
\* makes the task Failed and writes nothing; the step in which the response
\* arrives with an HTTP error status makes the task Failed as well: a task is
\* never past the fetch with such a response, never Completed after one, and
\* no file ever holds bytes of an error page.
C17_FetchErrorsFail ==
    /\ [][\A t \in Tasks :
            t \in DOMAIN task' =>
                /\ FailsWith(t, {"fetch"}) => files' = files
                /\ (task[t].pc = "fetching" /\ task'[t].status = "http_error")
                      => task'[t].outcome = "Failed"
                /\ task[t].status = "http_error"
                      => task'[t].outcome # "Completed"]_vars
    /\ [](\A p \in DOMAIN files : ~HoldsErrorPage(p))
\* C18: the destination filename of every scheduled episode (date prefix,
\* sanitized title, '.', extension off the enclosure URL or mp3) holds none
\* of the characters < > : " / \ | ? *, whatever the title, the publication
\* date and the enclosure URL; without a '/', it names a file directly inside
\* the podcast directory.
C18_FilenameSafe ==
    \A t \in 1..Len(downloads) :
        \A i \in 1..Len(downloads[t].filename) :
            downloads[t].filename[i] \notin InvalidChars
\* tasks are still to acquire a permit, none is available and no task holds
\* one that it could give back
Stuck ==
    /\ LimiterExists
    /\ \E t \in Tasks : task[t].pc \in {"pending", "waiting"}
    /\ permits = 0
    /\ InFlight = {}

\* C19: for every --threads value, 0 included, the run never reaches a state
\* in which tasks are still Pending and no task can ever acquire a permit,
\* and once the tasks are scheduled the drain loop ends: main reaches Done.
C19_NoDeadlock ==
    /\ []~Stuck
    /\ (phase = "TasksScheduled") ~> (phase = "Done")
====
